---------------------------- MODULE Spec2Model ----------------------------
(***************************************************************************)
(* Verification model of the retrieval-and-agent core of HackUTA           *)
(* (src/agentic_rag_sports.py): the chunker, the index store               *)
(* (build_or_load_indexes), hybrid search with MMR, the planner, the       *)
(* reflector and the agent loop (agentic_answer).                          *)
(*                                                                         *)
(* Numbers: a relevance score s stands for s/100, a fuzzy ratio p is the   *)
(* value of fuzz.partial_ratio (0..100), MMR_LAMBDA is in percent, and a   *)
(* gain g stands for g/10000.                                              *)
(***************************************************************************)
EXTENDS Integers, Sequences, FiniteSets, TLC

VARIABLES
    \* ---- search(query, emb, index, meta, bm25, bm25_data, top_k) ----
    s_pc,        \* position inside search
    s_ctx,       \* the snapshot searched: [index, meta, bm25, bm25_data]
    s_top_k,     \* the parameter top_k
    s_fuzz,      \* fuzz.partial_ratio as a table over pairs of texts
    s_lambda,    \* the module global MMR_LAMBDA, in hundredths
    vec_hits,    \* list of (score, doc) of the vector search
    lex_hits,    \* list of (score, doc) of the lexical search
    merged,      \* dict id -> {score, doc}, in insertion order
    candidates,  \* list(merged.values()) minus what was selected
    selected,    \* the hits selected so far
    selected_texts,
    \* ---- agentic_answer(query, ctx) ----
    a_pc,        \* the statement agentic_answer executes next
    query,       \* the parameter query, a sequence of tokens
    ctx,         \* the parameter ctx: a snapshot, or None
    a_fuzz,      \* fuzz.partial_ratio as a table over pairs of texts
    a_search,    \* what search can return on ctx, over the scores of a query
    subgoals,    \* the value of plan(query)
    sg_i,        \* number of subgoals the for loop has handled
    collected,   \* the evidence collected
    draft,       \* the current draft, a sequence of tokens
    issues,      \* what reflect reported
    a_trace,     \* the phases executed so far, in order
    \* ---- sliding_window_chunks(txt, chunk_size, overlap) ----
    k_pc,        \* position inside sliding_window_chunks
    k_txt,       \* txt, a sequence of characters
    k_size,      \* the parameter chunk_size
    k_overlap,   \* the parameter overlap
    k_i,         \* the loop variable i
    k_chunks,    \* the list chunks
    \* ---- build_or_load_indexes(data_dir, index_dir), called concurrently ----
    fs,          \* index_dir: the files meta.json, faiss.index, bm25.json
    b_pc,        \* per call: the statement it executes next
    b_local,     \* per call: its local variables
    b_result,    \* per call: the tuple it returned
    b_count,     \* number of builds started (stands for uuid4's freshness)
    fs0,         \* index_dir as the call that started last found it
    data_dirs,   \* data_dir: the file lists glob("*") returns during the run
    \* ---- queries served concurrently from one loaded snapshot ----
    q_ctx,       \* the tuple (index, meta, bm25, bm25_data) all queries share
    q_fuzz,      \* fuzz.partial_ratio as a table over pairs of texts
    q_pc,        \* per query: the statement it executes next
    q_local,     \* per query: its call and its local variables
    \* ---- POST /analyze requests and the workflow they run ----
    uploads,     \* UPLOAD_DIR: the paths of the files it holds
    sports_json, \* the file sports.json of the working directory
    w_pc,        \* per request: the statement it executes next
    w_local      \* per request: its parameters and local variables

searchVars == <<s_pc, s_ctx, s_top_k, s_fuzz, s_lambda, vec_hits, lex_hits, merged,
                candidates, selected, selected_texts>>

agentVars == <<a_pc, query, ctx, a_fuzz, a_search, subgoals, sg_i, collected, draft,
               issues, a_trace>>

chunkVars == <<k_pc, k_txt, k_size, k_overlap, k_i, k_chunks>>

storeVars == <<fs, b_pc, b_local, b_result, b_count, fs0, data_dirs>>

serveVars == <<q_ctx, q_fuzz, q_pc, q_local>>

webVars == <<uploads, sports_json, w_pc, w_local>>

vars == <<searchVars, agentVars, chunkVars, storeVars, serveVars, webVars>>

notSearch == <<agentVars, chunkVars, storeVars, serveVars, webVars>>
notAgent == <<searchVars, chunkVars, storeVars, serveVars, webVars>>
notChunk == <<searchVars, agentVars, storeVars, serveVars, webVars>>
notStore == <<searchVars, agentVars, chunkVars, serveVars, webVars>>
notServe == <<searchVars, agentVars, chunkVars, storeVars, webVars>>
notWeb == <<searchVars, agentVars, chunkVars, storeVars, serveVars>>

-----------------------------------------------------------------------------
(* Bounds of the model *)

\* chunks of a snapshot searched
MaxChunks == 3
\* the parameter top_k of search
MaxTopK == 2
\* chunks of a snapshot the agent runs on (besides LargeCorpora)
MaxAgentChunks == 2
\* characters of a text to chunk
MaxTextLen == 4
\* chunk_size and overlap
MaxSize == 3
\* iterations of the chunking loop followed
MaxIter == 6
\* concurrent calls of build_or_load_indexes
NumCalls == 3
\* chunks a scan of the corpus directory yields
MaxCorpus == 2
\* queries served at the same time
NumQueries == 2
\* chunks of the snapshot the concurrent queries share
MaxServed == 2
\* POST /analyze requests in flight
NumRequests == 2

-----------------------------------------------------------------------------
(* Program constants *)

TOP_K == 6
MMR_LAMBDA == 50
\* best_gain starts at -1e9 (in gain units)
BEST_GAIN_INIT == -1000000000
\* the distance faiss reports for a missing row (the lowest float32): any
\* relevance whose weighted gain lies below BEST_GAIN_INIT
FAISS_PAD_SCORE == -21000000
\* the label faiss reports for a missing row
FAISS_PAD_LABEL == -1

-----------------------------------------------------------------------------
(* Data *)

\* chunk texts, as sequences of whitespace-separated tokens
TextAngle == <<"entry", "angle", "guidance">>
TextForm == <<"shooting", "form", "cues">>
TextPlain == <<"follow", "through">>
Texts == {TextAngle, TextForm, TextPlain}

\* relevance scores the encoder/index and the BM25 scorer may report
VecScores == {-20, 60}
LexScores == {0, 60}
\* values of fuzz.partial_ratio for two different texts
Ratios == {0, 50, 100}

\* KBChunk as stored in meta.json / bm25.json: {"id", "text", "meta"}
KBChunk(id, text, filename) ==
    [id |-> id, text |-> text, meta |-> [filename |-> filename]]

\* BM25Okapi(corpus): the scorer has one row per document of its corpus; an
\* empty bm25_data is replaced by the one-document corpus [["dummy"]]
BM25Okapi(bm25_data) == IF bm25_data = <<>> THEN 1 ELSE Len(bm25_data)

\* the tuple (index, meta, bm25, bm25_data) build b returns when its chunks
\* are docs, a list of <<text, filename>> (emb is stateless); a chunk id is
\* fresh per build and chunk; index holds, per row, the id of the chunk
\* embedded
BuildOf(b, docs) ==
    LET rows == [i \in 1..Len(docs) |->
                    KBChunk(<<b, i>>, docs[i][1], docs[i][2])]
    IN [index |-> [i \in 1..Len(docs) |-> <<b, i>>], meta |-> rows,
        bm25 |-> BM25Okapi(rows), bm25_data |-> rows]

SnapshotOf(docs) == BuildOf(1, docs)

\* the tuple the load path returns when it read, of the artifacts of the
\* builds x and y, those that from names: from[1] for faiss.index, from[2]
\* for meta.json, from[3] for bm25.json
LoadedOf(x, y, from) ==
    LET bm25_data == IF from[3] = 1 THEN x.bm25_data ELSE y.bm25_data
    IN [index |-> IF from[1] = 1 THEN x.index ELSE y.index,
        meta |-> IF from[2] = 1 THEN x.meta ELSE y.meta,
        bm25 |-> BM25Okapi(bm25_data), bm25_data |-> bm25_data]

\* the three artifacts have the same rows: row i is the same chunk in each
SameRows(c) ==
    /\ Len(c.index) = Len(c.meta)
    /\ Len(c.bm25_data) = Len(c.meta)
    /\ c.bm25 = Len(c.meta)
    /\ \A i \in 1..Len(c.meta) :
          c.index[i] = c.meta[i].id /\ c.bm25_data[i].id = c.meta[i].id

\* Python's None, where a snapshot is expected
None == [none |-> TRUE]

SeqsUpTo(S, n) == UNION {[1..k -> S] : k \in 1..n}

\* tables for partial_ratio over the texts T: symmetric, 100 on identical texts
FuzzTables(T) ==
    {f \in [T \X T -> Ratios] :
        \A a, b \in T : f[a, b] = f[b, a] /\ (a = b => f[a, b] = 100)}

-----------------------------------------------------------------------------
(* Python helpers *)

Min(a, b) == IF a <= b THEN a ELSE b
Max(a, b) == IF a >= b THEN a ELSE b

\* seq[i] with Python's 0-based index, negative counting from the end
PyIndexOk(seq, i) == -Len(seq) <= i /\ i < Len(seq)
PyIndex(seq, i) == IF i >= 0 THEN seq[i + 1] ELSE seq[Len(seq) + i + 1]

\* seq[:n], n >= 0
PyHead(seq, n) == SubSeq(seq, 1, Min(n, Len(seq)))

\* seq[a:b]: a negative bound counts from the end, both are clamped
PySlice(seq, a, b) ==
    LET n == Len(seq)
        lo == IF a < 0 THEN Max(a + n, 0) ELSE Min(a, n)
        hi == IF b < 0 THEN Max(b + n, 0) ELSE Min(b, n)
    IN SubSeq(seq, lo + 1, hi)

RemoveAt(seq, i) == SubSeq(seq, 1, i - 1) \o SubSeq(seq, i + 1, Len(seq))

\* the place element i takes when a list is sorted by the keys in descending
\* order by a stable sort: after the elements of a higher key, and after the
\* elements of its own key that precede it
Place(keys, i) ==
    1 + Cardinality({j \in 1..Len(keys) : keys[j] > keys[i]})
      + Cardinality({j \in 1..(i - 1) : keys[j] = keys[i]})

\* sorted(seq, key=..., reverse=True), keys[i] being the key of seq[i]
SortedDescBy(seq, keys) ==
    SubSeq([p \in 1..Len(seq) |->
               seq[CHOOSE i \in 1..Len(seq) : Place(keys, i) = p]],
           1, Len(seq))

\* sorted(hits, key=lambda x: x[0], reverse=True)
SortedDesc(hits) ==
    SortedDescBy(hits, [i \in 1..Len(hits) |-> hits[i].score])

-----------------------------------------------------------------------------
(* search: the pure steps *)

\* D, I = index.search(qv, k): the k best rows by inner product, best first,
\* 0-based labels; rows the index does not have are reported as label -1
FaissSearch(index, vs, k) ==
    LET n == Len(index)
        rows == SortedDesc([i \in 1..n |-> [score |-> vs[i], label |-> i - 1]])
    IN [j \in 1..k |->
           IF j <= n THEN rows[j]
           ELSE [score |-> FAISS_PAD_SCORE, label |-> FAISS_PAD_LABEL]]

\* meta[I[0][i]] is defined for every i
VecHitsOk(DI, meta) == \A j \in 1..Len(DI) : PyIndexOk(meta, DI[j].label)

\* vec_hits = [(float(D[0][i]), meta[I[0][i]]) for i in range(min(len(I[0]), top_k*5))]
VecHits(DI, meta, top_k) ==
    [j \in 1..Min(Len(DI), top_k * 5) |->
        [score |-> DI[j].score, doc |-> PyIndex(meta, DI[j].label)]]

\* bm25_data[i] is defined for every i in range(len(scores))
LexHitsOk(scores, bm25_data) == Len(scores) <= Len(bm25_data)

\* lex_hits = sorted([(scores[i], bm25_data[i]) ...], reverse=True)[:top_k*5]
LexHits(scores, bm25_data, top_k) ==
    PyHead(SortedDesc([i \in 1..Len(scores) |->
                          [score |-> scores[i], doc |-> bm25_data[i]]]),
           top_k * 5)

\* variant: the lower score wins a collision
BetterScoreMin(s, old) == s < old

\* s > merged[key]["score"]
BetterScore(s, old) == s > old

RECURSIVE MergeInto(_, _)
\* for s, m in hits: if key not in merged or s > merged[key]["score"]: ...
MergeInto(m, hits) ==
    IF hits = <<>> THEN m
    ELSE LET h == Head(hits)
             key == h.doc.id
             pos == {i \in 1..Len(m) : m[i].key = key}
             entry == [key |-> key, score |-> h.score, doc |-> h.doc]
             m2 == IF pos = {} THEN Append(m, entry)
                   ELSE LET i == CHOOSE i \in pos : TRUE
                        IN IF BetterScore(h.score, m[i].score)
                           THEN [m EXCEPT ![i] = entry] ELSE m
         IN MergeInto(m2, Tail(hits))

\* merged, as the list of its items in insertion order
Merge(vh, lh) == MergeInto(<<>>, vh \o lh)

\* list(merged.values())
Values(m) == [i \in 1..Len(m) |-> [score |-> m[i].score, doc |-> m[i].doc]]

\* max(fuzz.partial_ratio(c["doc"]["text"], st) for st in selected_texts), or 0
MaxSim(c, sel_texts, fz) ==
    IF sel_texts = <<>> THEN 0
    ELSE LET rs == {fz[c.doc.text, sel_texts[i]] : i \in 1..Len(sel_texts)}
         IN CHOOSE r \in rs : \A q \in rs : q <= r

\* variant: relevance and diversity weigh the same whatever lambda is
GainEven(c, sel_texts, fz, lambda) ==
    50 * c.score - 50 * MaxSim(c, sel_texts, fz)

\* gain = MMR_LAMBDA * c["score"] - (1 - MMR_LAMBDA) * sim
Gain(c, sel_texts, fz, lambda) ==
    lambda * c.score - (100 - lambda) * MaxSim(c, sel_texts, fz)

\* variant: the first candidate is taken whatever its gain
BestIndexFirst(cands, sel_texts, fz, lambda) == IF cands = <<>> THEN 0 ELSE 1

\* the inner for loop: the first candidate of the highest gain above
\* best_gain's start, as an index; 0 when best stays None
BestIndex(cands, sel_texts, fz, lambda) ==
    LET g(i) == Gain(cands[i], sel_texts, fz, lambda)
        ok == {i \in 1..Len(cands) : g(i) > BEST_GAIN_INIT}
    IN IF ok = {} THEN 0
       ELSE CHOOSE i \in ok : /\ \A j \in ok : g(j) <= g(i)
                              /\ \A j \in ok : j < i => g(j) < g(i)

\* variant: best stays among the candidates
ListRemoveNothing(cands, best) == cands

\* candidates.remove(best): drops the first element equal to best
ListRemove(cands, best) ==
    LET i == CHOOSE i \in 1..Len(cands) :
                 cands[i] = best /\ \A j \in 1..(i - 1) : cands[j] # best
    IN RemoveAt(cands, i)

\* variant: the loop body never runs
MMRGuardNever(cands, sel, top_k) == FALSE

\* while candidates and len(selected) < top_k
MMRGuard(cands, sel, top_k) == cands # <<>> /\ Len(sel) < top_k

RECURSIVE MMRLoop(_, _, _, _, _, _)
\* the MMR while loop, run to its end: [ok, selected]; ok is FALSE when
\* best["doc"] is evaluated with best = None
MMRLoop(cands, sel, sel_texts, fz, lambda, top_k) ==
    IF ~MMRGuard(cands, sel, top_k) THEN [ok |-> TRUE, selected |-> sel]
    ELSE LET b == BestIndex(cands, sel_texts, fz, lambda)
         IN IF b = 0 THEN [ok |-> FALSE, selected |-> sel]
            ELSE MMRLoop(ListRemove(cands, cands[b]),
                         Append(sel, cands[b].doc),
                         Append(sel_texts, cands[b].doc.text),
                         fz, lambda, top_k)

\* search(query, emb, index, meta, bm25, bm25_data, top_k), for a query whose
\* vector scores are vs and whose BM25 scores are ls: [ok, selected]
Search(c, vs, ls, fz, top_k) ==
    LET DI == FaissSearch(c.index, vs, top_k * 5)
    IN IF ~VecHitsOk(DI, c.meta) \/ ~LexHitsOk(ls, c.bm25_data)
       THEN [ok |-> FALSE, selected |-> <<>>]
       ELSE MMRLoop(Values(Merge(VecHits(DI, c.meta, top_k),
                                 LexHits(ls, c.bm25_data, top_k))),
                    <<>>, <<>>, fz, MMR_LAMBDA, top_k)

-----------------------------------------------------------------------------
(* Strings: a text is a sequence of whitespace-separated tokens, so a keyword *)
(* without whitespace occurs in a text iff it occurs inside one token         *)

\* str.lower(), on the tokens that have an upper-case letter
Lower(tok) ==
    CASE tok = "Angle" -> "angle"
      [] tok = "Angles" -> "angles"
      [] tok = "Form" -> "form"
      [] OTHER -> tok

\* the keywords of plan, reflect and bias that are substrings of a
\* lower-case token
KeywordsOf(tok) ==
    CASE tok \in {"angle", "angles", "angle-specific", "triangle",
                  "shot_angles.pdf"} -> {"angle"}
      [] tok \in {"arc", "search"} -> {"arc"}
      [] tok \in {"form", "perform"} -> {"form"}
      [] tok \in {"technique", "entry", "release", "mechanics", "finishing"}
            -> {tok}
      [] OTHER -> {}

\* kw in text.lower()
InLower(kw, text) == \E i \in 1..Len(text) : kw \in KeywordsOf(Lower(text[i]))

RECURSIVE Dedupe(_)
\* list(dict.fromkeys(subs)): the first occurrence of each element, in order
Dedupe(subs) ==
    IF subs = <<>> THEN <<>>
    ELSE LET front == Dedupe(SubSeq(subs, 1, Len(subs) - 1))
             last == subs[Len(subs)]
         IN IF \E i \in 1..Len(front) : front[i] = last THEN front
            ELSE Append(front, last)

RECURSIVE Concat(_)
\* the texts of a list, joined by blanks
Concat(texts) == IF texts = <<>> THEN <<>> ELSE Head(texts) \o Concat(Tail(texts))

-----------------------------------------------------------------------------
(* The agent loop: plan, reflect, synthesize_answer, bias *)

SubgoalAngle == <<"release", "angle", "and", "entry", "angle", "guidance",
                  "for", "shots", "and", "finishes">>
SubgoalForm == <<"form", "and", "technique", "cues">>

\* plan(query)
Plan(q) ==
    LET s1 == IF InLower("angle", q) \/ InLower("arc", q)
              THEN <<q, SubgoalAngle>> ELSE <<>>
        s2 == IF InLower("form", q) \/ InLower("technique", q)
              THEN Append(s1, SubgoalForm) ELSE s1
        s3 == IF s2 = <<>> THEN <<q>> ELSE s2
    IN Dedupe(s3)

IssueAngle == <<"Angles", "mentioned", "but", "not", "grounded;", "retrieve",
                "angle-specific", "chunks.">>
IssueNoEvidence == <<"No", "evidence", "retrieved.">>

\* variant: the draft alone is looked at
ReflectDraftOnly(d, evidences) ==
    IF InLower("angle", d) THEN <<IssueAngle>> ELSE <<>>

\* reflect(draft, evidences): the issues (ok is issues = <<>>)
Reflect(d, evidences) ==
    LET combined == Concat([i \in 1..Len(evidences) |-> evidences[i].text])
    IN (IF InLower("angle", d) /\ ~InLower("angle", combined)
        THEN <<IssueAngle>> ELSE <<>>)
       \o (IF Len(evidences) = 0 THEN <<IssueNoEvidence>> ELSE <<>>)

\* one bullet of the draft: the snippet and its citation (the chunks of the
\* model carry a filename and neither section nor page)
DraftLine(ev) == <<"-">> \o ev.text \o <<"_Source:_", ev.meta.filename>>

\* variant: every evidence is rendered
CitedAll(evidences) == evidences

\* evidences[:4], line 294
Cited(evidences) == PyHead(evidences, 4)

\* synthesize_answer(query, evidences): renders evidences[:4]
SynthesizeAnswer(q, evidences) ==
    LET cited == Cited(evidences)
    IN <<"**Answer", "(Agentic", "RAG):**">>
       \o Concat([i \in 1..Len(cited) |-> DraftLine(cited[i])])
       \o <<"_Synthesis", "grounded", "in", "retrieved", "KB", "passages._">>

\* any(k in s for k in kws), s the lower-case text
AnyInLower(kws, text) ==
    \E i \in 1..Len(text) : KeywordsOf(Lower(text[i])) \cap kws # {}

\* variant: the form keywords earn nothing
BiasAngleOnly(h) ==
    IF AnyInLower({"angle", "arc", "entry", "release"}, h.text) THEN 10 ELSE 0

\* bias(h), times 10
Bias(h) ==
    (IF AnyInLower({"angle", "arc", "entry", "release"}, h.text) THEN 10 ELSE 0)
    + (IF AnyInLower({"form", "technique", "mechanics", "finishing"}, h.text)
       THEN 5 ELSE 0)

\* variant: every hit of the subgoal is kept
TopBiasedUncut(hits) ==
    SortedDescBy(hits, [i \in 1..Len(hits) |-> Bias(hits[i])])

\* sorted(hits, key=lambda h: bias(h), reverse=True)[:3]
TopBiased(hits) ==
    SubSeq(SortedDescBy(hits, [i \in 1..Len(hits) |-> Bias(hits[i])]),
           1, Min(3, Len(hits)))

\* the refined query: query + " " + " ".join(issues)
Refined(q, iss) == q \o Concat(iss)

-----------------------------------------------------------------------------
(* search, step by step *)

SearchTexts == {TextAngle, TextPlain}
SearchDocs == {<<t, "basketball.pdf">> : t \in SearchTexts}

\* search is not running
S_Off ==
    /\ s_pc = "off"
    /\ s_ctx = None
    /\ s_top_k = 0
    /\ s_fuzz = <<>>
    /\ s_lambda = 0
    /\ vec_hits = <<>>
    /\ lex_hits = <<>>
    /\ merged = <<>>
    /\ candidates = <<>>
    /\ selected = <<>>
    /\ selected_texts = <<>>

\* a corpus of more chunks than the top_k * 5 rows a search with top_k = 1
\* asks the index for
WideCorpus == [i \in 1..6 |->
                 <<IF i \in {2, 5} THEN TextAngle ELSE TextPlain, "basketball.pdf">>]

\* tuples a load returns that read artifacts of two builds
MixedDocs == SeqsUpTo({<<TextPlain, "basketball.pdf">>}, 2)
MixedSnapshots ==
    {LoadedOf(BuildOf(1, d1), BuildOf(2, d2), from) :
        d1 \in MixedDocs, d2 \in MixedDocs,
        from \in [1..3 -> {1, 2}] \ {[i \in 1..3 |-> 1], [i \in 1..3 |-> 2]}}

\* the inputs of a search; the configuration of MMR_LAMBDA is set by the
\* specification
S_Init ==
    /\ s_pc = "vector"
    /\ \/ /\ s_ctx \in {SnapshotOf(d) : d \in SeqsUpTo(SearchDocs, MaxChunks)}
          /\ s_top_k \in 1..MaxTopK
          /\ s_fuzz \in FuzzTables(SearchTexts)
       \/ /\ s_ctx \in MixedSnapshots
          /\ s_top_k \in 1..MaxTopK
          /\ s_fuzz \in {f \in FuzzTables(SearchTexts) : f[TextAngle, TextPlain] = 50}
       \/ /\ s_ctx = SnapshotOf(WideCorpus)
          /\ s_top_k = 1
          /\ s_fuzz \in {f \in FuzzTables(SearchTexts) : f[TextAngle, TextPlain] = 50}
    /\ vec_hits = <<>>
    /\ lex_hits = <<>>
    /\ merged = <<>>
    /\ candidates = <<>>
    /\ selected = <<>>
    /\ selected_texts = <<>>

\* lines 221-224
S_Vector ==
    /\ s_pc = "vector"
    /\ \E vs \in [1..Len(s_ctx.index) -> VecScores] :
         LET DI == FaissSearch(s_ctx.index, vs, s_top_k * 5)
         IN IF VecHitsOk(DI, s_ctx.meta)
            THEN /\ vec_hits' = VecHits(DI, s_ctx.meta, s_top_k)
                 /\ s_pc' = "lexical"
            ELSE /\ vec_hits' = vec_hits
                 /\ s_pc' = "raised"
    /\ UNCHANGED <<s_ctx, s_top_k, s_fuzz, s_lambda, lex_hits, merged, candidates,
                   selected, selected_texts, notSearch>>

\* lines 227-231
S_Lexical ==
    /\ s_pc = "lexical"
    /\ \E ls \in [1..s_ctx.bm25 -> LexScores] :
         IF LexHitsOk(ls, s_ctx.bm25_data)
         THEN /\ lex_hits' = LexHits(ls, s_ctx.bm25_data, s_top_k)
              /\ s_pc' = "merge"
         ELSE /\ lex_hits' = lex_hits
              /\ s_pc' = "raised"
    /\ UNCHANGED <<s_ctx, s_top_k, s_fuzz, s_lambda, vec_hits, merged, candidates,
                   selected, selected_texts, notSearch>>

\* lines 234-241
S_Merge ==
    /\ s_pc = "merge"
    /\ merged' = Merge(vec_hits, lex_hits)
    /\ candidates' = Values(merged')
    /\ s_pc' = "mmr"
    /\ UNCHANGED <<s_ctx, s_top_k, s_fuzz, s_lambda, vec_hits, lex_hits, selected,
                   selected_texts, notSearch>>

\* one iteration of the while loop, lines 243-254
S_Select ==
    /\ s_pc = "mmr"
    /\ MMRGuard(candidates, selected, s_top_k)
    /\ LET b == BestIndex(candidates, selected_texts, s_fuzz, s_lambda)
       IN IF b = 0
          THEN /\ s_pc' = "raised"
               /\ UNCHANGED <<candidates, selected, selected_texts>>
          ELSE /\ selected' = Append(selected, candidates[b].doc)
               /\ selected_texts' = Append(selected_texts, candidates[b].doc.text)
               /\ candidates' = ListRemove(candidates, candidates[b])
               /\ s_pc' = "mmr"
    /\ UNCHANGED <<s_ctx, s_top_k, s_fuzz, s_lambda, vec_hits, lex_hits, merged, notSearch>>

\* line 255
S_Return ==
    /\ s_pc = "mmr"
    /\ ~MMRGuard(candidates, selected, s_top_k)
    /\ s_pc' = "returned"
    /\ UNCHANGED <<s_ctx, s_top_k, s_fuzz, s_lambda, vec_hits, lex_hits, merged,
                   candidates, selected, selected_texts, notSearch>>

SearchNext == S_Vector \/ S_Lexical \/ S_Merge \/ S_Select \/ S_Return

-----------------------------------------------------------------------------
(* agentic_answer, statement by statement *)

\* the chunks a corpus of the agent runs may hold
AgentDocs == {<<TextAngle, "basketball.pdf">>, <<TextForm, "shot_angles.pdf">>,
              <<TextPlain, "basketball.pdf">>}
\* corpora with more than three chunks, where [:3] cuts
LargeCorpora ==
    {<<<<TextForm, "shot_angles.pdf">>, <<TextForm, "shot_angles.pdf">>,
       <<TextPlain, "basketball.pdf">>, <<TextPlain, "basketball.pdf">>>>,
     <<<<TextPlain, "basketball.pdf">>, <<TextAngle, "basketball.pdf">>,
       <<TextForm, "shot_angles.pdf">>, <<TextAngle, "basketball.pdf">>>>}
AgentSnapshots ==
    {SnapshotOf(d) : d \in SeqsUpTo(AgentDocs, MaxAgentChunks) \cup LargeCorpora}

\* partial_ratio tables of the agent runs: one ratio for all different texts
AgentFuzz == {f \in FuzzTables(Texts) :
                 \A a, b, c, d \in Texts : a # b /\ c # d => f[a, b] = f[c, d]}

Queries == {<<"improve", "my", "shot">>,
            <<"improve", "shot", "Angle">>,
            <<"shooting", "Form">>,
            <<"perform", "better">>,
            <<"arc", "and", "technique">>,
            SubgoalAngle,
            SubgoalForm}

\* what search(q, *ctx) can return on snapshot c, over the scores a query
\* can have
SearchResults(c, f) ==
    {Search(c, vs, ls, f, TOP_K) :
        vs \in [1..Len(c.index) -> VecScores], ls \in [1..c.bm25 -> LexScores]}

\* SearchResults, tabulated over the snapshots and tables of the agent runs
SearchTable ==
    {<<c, f, SearchResults(c, f)>> : c \in AgentSnapshots, f \in AgentFuzz}

\* tool_retriever(q, ctx): the results search(q, *ctx) can return
ToolRetriever(c, f) == (CHOOSE t \in SearchTable : t[1] = c /\ t[2] = f)[3]

\* agentic_answer is not running
A_Off ==
    /\ a_pc = "off"
    /\ query = <<>>
    /\ ctx = None
    /\ a_fuzz = <<>>
    /\ a_search = {}
    /\ subgoals = <<>>
    /\ sg_i = 0
    /\ collected = <<>>
    /\ draft = <<>>
    /\ issues = <<>>
    /\ a_trace = <<>>

A_Init ==
    /\ a_pc = "Planning"
    /\ query \in Queries
    /\ ctx \in AgentSnapshots \cup {None}
    /\ a_fuzz \in AgentFuzz
    /\ a_search = IF ctx = None THEN {} ELSE ToolRetriever(ctx, a_fuzz)
    /\ subgoals = <<>>
    /\ sg_i = 0
    /\ collected = <<>>
    /\ draft = <<>>
    /\ issues = <<>>
    /\ a_trace = <<>>

\* the phase is appended when its first statement runs
Enter(phase) ==
    IF a_trace # <<>> /\ a_trace[Len(a_trace)] = phase THEN a_trace
    ELSE Append(a_trace, phase)

\* line 307
A_Plan ==
    /\ a_pc = "Planning"
    /\ subgoals' = Plan(query)
    /\ a_trace' = Enter("Planning")
    /\ a_pc' = "Retrieving"
    /\ UNCHANGED <<query, ctx, a_fuzz, a_search, sg_i, collected, draft, issues, notAgent>>

\* one iteration of the for loop, lines 310-319; tool_retriever raises a
\* TypeError when it unpacks a ctx that is None
A_Retrieve ==
    /\ a_pc = "Retrieving"
    /\ sg_i < Len(subgoals)
    /\ a_trace' = Enter("Retrieving")
    /\ IF ctx = None
       THEN /\ a_pc' = "Raised"
            /\ UNCHANGED <<sg_i, collected>>
       ELSE \E r \in a_search :
               IF r.ok
               THEN /\ collected' = collected \o TopBiased(r.selected)
                    /\ sg_i' = sg_i + 1
                    /\ a_pc' = "Retrieving"
               ELSE /\ a_pc' = "Raised"
                    /\ UNCHANGED <<sg_i, collected>>
    /\ UNCHANGED <<query, ctx, a_fuzz, a_search, subgoals, draft, issues, notAgent>>

\* line 321
A_Synthesize ==
    /\ a_pc = "Retrieving"
    /\ sg_i = Len(subgoals)
    /\ draft' = SynthesizeAnswer(query, collected)
    /\ a_trace' = Enter("Synthesizing")
    /\ a_pc' = "Reflecting"
    /\ UNCHANGED <<query, ctx, a_fuzz, a_search, subgoals, sg_i, collected, issues, notAgent>>

\* lines 322-323
A_Reflect ==
    /\ a_pc = "Reflecting"
    /\ issues' = Reflect(draft, collected)
    /\ a_trace' = Enter("Reflecting")
    /\ a_pc' = IF issues' = <<>> THEN "Return" ELSE "Refining"
    /\ UNCHANGED <<query, ctx, a_fuzz, a_search, subgoals, sg_i, collected, draft, notAgent>>

\* variant: the refinement round returns without a new draft
AfterRefineSkip == "Return"

\* the statement after line 325: the final synthesis of line 326
AfterRefine == "SynthesizingFinal"

\* variant: the new hits are put in front
ExtendedInFront(evidences, hits) == hits \o evidences

\* collected.extend(hits), line 325
Extended(evidences, hits) == evidences \o hits

\* lines 324-325
A_Refine ==
    /\ a_pc = "Refining"
    /\ a_trace' = Enter("Refining")
    /\ IF ctx = None
       THEN /\ a_pc' = "Raised"
            /\ UNCHANGED collected
       ELSE \E r \in a_search :
               IF r.ok
               THEN /\ collected' = Extended(collected, r.selected)
                    /\ a_pc' = AfterRefine
               ELSE /\ a_pc' = "Raised"
                    /\ UNCHANGED collected
    /\ UNCHANGED <<query, ctx, a_fuzz, a_search, subgoals, sg_i, draft, issues, notAgent>>

\* line 326
A_SynthesizeFinal ==
    /\ a_pc = "SynthesizingFinal"
    /\ draft' = SynthesizeAnswer(query, collected)
    /\ a_trace' = Enter("Synthesizing(final)")
    /\ a_pc' = "Return"
    /\ UNCHANGED <<query, ctx, a_fuzz, a_search, subgoals, sg_i, collected, issues, notAgent>>

\* line 328
A_Return ==
    /\ a_pc = "Return"
    /\ a_trace' = Enter("Done")
    /\ a_pc' = "Done"
    /\ UNCHANGED <<query, ctx, a_fuzz, a_search, subgoals, sg_i, collected, draft, issues,
                   notAgent>>

AgentNext ==
    \/ A_Plan
    \/ A_Retrieve
    \/ A_Synthesize
    \/ A_Reflect
    \/ A_Refine
    \/ A_SynthesizeFinal
    \/ A_Return

-----------------------------------------------------------------------------
(* sliding_window_chunks, statement by statement *)

Chars == {"a", "b", " "}
IsSpace(ch) == ch = " "

RECURSIVE CollapseSpaces(_)
\* re.sub(r"\s+", " ", txt): every run of whitespace becomes one blank
CollapseSpaces(t) ==
    IF Len(t) <= 1 THEN t
    ELSE IF IsSpace(t[1]) /\ IsSpace(t[2]) THEN CollapseSpaces(Tail(t))
         ELSE <<t[1]>> \o CollapseSpaces(Tail(t))

\* str.strip(), on a text whose whitespace runs are single blanks
Strip(t) ==
    LET l == IF t # <<>> /\ IsSpace(t[1]) THEN Tail(t) ELSE t
    IN IF l # <<>> /\ IsSpace(l[Len(l)]) THEN SubSeq(l, 1, Len(l) - 1) ELSE l

\* txt = re.sub(r"\s+", " ", txt).strip()
Normalize(t) == Strip(CollapseSpaces(t))

\* sliding_window_chunks is not running
K_Off ==
    /\ k_pc = "off"
    /\ k_txt = <<>>
    /\ k_size = 0
    /\ k_overlap = 0
    /\ k_i = 0
    /\ k_chunks = <<>>

K_Init ==
    /\ k_pc = "normalize"
    /\ k_txt \in UNION {[1..n -> Chars] : n \in 0..MaxTextLen}
    /\ k_size \in 1..MaxSize
    /\ k_overlap \in 0..MaxSize
    /\ k_i = 0
    /\ k_chunks = <<>>

\* lines 41-43
K_Normalize ==
    /\ k_pc = "normalize"
    /\ k_txt' = Normalize(k_txt)
    /\ k_chunks' = <<>>
    /\ k_i' = 0
    /\ k_pc' = "while"
    /\ UNCHANGED <<k_size, k_overlap, notChunk>>

NextStartNoOverlap(i, size, overlap) == i + size

\* line 47: i += (chunk_size - overlap)
NextStart(i, size, overlap) == i + (size - overlap)

\* one iteration of the while loop, lines 44-47; the break of lines 48-49
\* leaves the loop where the loop condition would
K_Iterate ==
    /\ k_pc = "while"
    /\ k_i < Len(k_txt)
    /\ Len(k_chunks) < MaxIter
    /\ k_chunks' = Append(k_chunks, PySlice(k_txt, k_i, k_i + k_size))
    /\ k_i' = NextStart(k_i, k_size, k_overlap)
    /\ UNCHANGED <<k_pc, k_txt, k_size, k_overlap, notChunk>>

\* line 50
K_Return ==
    /\ k_pc = "while"
    /\ ~(k_i < Len(k_txt))
    /\ k_pc' = "returned"
    /\ UNCHANGED <<k_txt, k_size, k_overlap, k_i, k_chunks, notChunk>>

ChunkNext == K_Normalize \/ K_Iterate \/ K_Return

-----------------------------------------------------------------------------
(* build_or_load_indexes, one file-system operation at a time *)

Calls == 1..NumCalls
Artifacts == {"meta", "faiss", "bm25"}

\* a file that does not exist
Absent == [exists |-> FALSE]

\* a file that exists: rows is what a reader gets when the file is whole
\* (complete), size its length in rows
File(rows, size, complete) ==
    [exists |-> TRUE, rows |-> rows, size |-> size, complete |-> complete]

\* open(path, "w"): the file is created or truncated
Truncated == File(<<>>, 0, FALSE)

\* the file after a writer that opened it wrote `rows` from offset 0 and
\* closed: whole, unless a longer content written meanwhile by another
\* writer leaves its tail behind
Dumped(f, rows) ==
    IF f.exists /\ f.size > Len(rows)
    THEN File(<<>>, f.size, FALSE)
    ELSE File(rows, Len(rows), TRUE)

\* the chunks of build b over a corpus of n chunks: uuid4 ids are fresh
\* per chunk and per build
BuiltChunks(b, n) == [i \in 1..n |-> [id |-> <<b, i>>]]

NoLocals == [found_paths |-> <<>>, chunks |-> <<>>, meta |-> <<>>, index |-> <<>>]

\* json.dump of a list of {"id": ..., ...} dicts: one object per row, each
\* the sequence of its key-value pairs in the order of the dict
JsonDump(rows) == [i \in 1..Len(rows) |-> << <<"id", rows[i].id>> >>]

\* the value of key k of a parsed object: the last pair with that key
Member(obj, k) ==
    LET at == {j \in 1..Len(obj) : obj[j][1] = k}
    IN obj[CHOOSE j \in at : \A j2 \in at : j2 <= j][2]

JsonLoadReversed(doc) ==
    [i \in 1..Len(doc) |-> [id |-> Member(doc[Len(doc) + 1 - i], "id")]]

\* json.load of a whole file: the list of dicts, in the order of the file
JsonLoad(doc) == [i \in 1..Len(doc) |-> [id |-> Member(doc[i], "id")]]

\* a file of data_dir: its suffix and what its bytes are
DataFiles ==
    {[ext |-> ".pdf", body |-> b] : b \in {"text", "image", "corrupt"}}
    \cup {[ext |-> ".docx", body |-> b] : b \in {"text", "corrupt"}}
    \cup {[ext |-> ".doc", body |-> "corrupt"], [ext |-> ".txt", body |-> "text"]}

\* shutil.which("ocrmypdf") and what running it gives
Ocr == {"absent", "works", "fails"}

\* read_pdf: every reader error is caught, the result is then empty
ReadPdf(f) == IF f.body = "text" THEN "docs" ELSE "none"

\* read_docx: DocxDocument raises on a file that is not a docx package,
\* and nothing catches it
ReadDocx(f) == IF f.body = "text" THEN "docs" ELSE "raise"

\* lines 147-169: what the loop body gets for one file
Extract(f, o) ==
    CASE f.ext = ".pdf" ->
           IF ReadPdf(f) = "none" /\ o # "absent"
           THEN IF o = "works" /\ f.body = "image" THEN "docs" ELSE "none"
           ELSE ReadPdf(f)
      [] f.ext \in {".docx", ".doc"} -> ReadDocx(f)
      [] OTHER -> "none"

\* the artifacts of the complete snapshot of build b over n chunks
SnapshotDir(b, n) ==
    [a \in Artifacts |->
       File(IF a = "faiss" THEN [i \in 1..n |-> <<b, i>>]
                           ELSE JsonDump(BuiltChunks(b, n)), n, TRUE)]

AbsentDir == [a \in Artifacts |-> Absent]

\* index_dir before the first call: nothing, the snapshot of an earlier
\* build, that snapshot with meta.json holding [], or with meta.json cut
IndexDirs ==
    {AbsentDir,
     SnapshotDir(0, 1),
     [SnapshotDir(0, 1) EXCEPT !["meta"] = File(<<>>, 0, TRUE)],
     [SnapshotDir(0, 1) EXCEPT !["meta"] = Truncated]}

\* a corpus whose files all have text, per number of files
TextCorpus(n) ==
    [i \in 1..n |-> IF i = 1 THEN [ext |-> ".docx", body |-> "text"]
                              ELSE [ext |-> ".pdf", body |-> "text"]]

\* build_or_load_indexes is not running
B_Off ==
    /\ fs = AbsentDir
    /\ b_pc = [p \in Calls |-> "off"]
    /\ b_local = [p \in Calls |-> NoLocals]
    /\ b_result = [p \in Calls |-> None]
    /\ b_count = 0
    /\ fs0 = AbsentDir
    /\ data_dirs = {}

\* the calls run concurrently on an empty index_dir, while files come and
\* go in data_dir
B_Init ==
    /\ fs = AbsentDir
    /\ b_pc = [p \in Calls |-> "exists"]
    /\ b_local = [p \in Calls |-> NoLocals]
    /\ b_result = [p \in Calls |-> None]
    /\ b_count = 0
    /\ fs0 = fs
    /\ data_dirs = {TextCorpus(n) : n \in 0..MaxCorpus}
                     \cup {<<[ext |-> ".doc", body |-> "corrupt"]>>}

\* the calls run one after the other, as successive runs of main do, on
\* one corpus and on any index_dir
B_InitSeq ==
    /\ fs \in IndexDirs
    /\ b_pc = [p \in Calls |-> IF p = 1 THEN "exists" ELSE "waiting"]
    /\ b_local = [p \in Calls |-> NoLocals]
    /\ b_result = [p \in Calls |-> None]
    /\ b_count = 0
    /\ fs0 = fs
    /\ \E d \in SeqsUpTo(DataFiles, MaxCorpus) \cup {<<>>} : data_dirs = {d}

\* a call that ended, by a return or by an exception
Finished(p) ==
    b_pc[p] \in {"returned", "raised_load", "raised_extract", "raised_empty", "crashed"}

\* the next run of the program starts
B_Start(p) ==
    /\ b_pc[p] = "waiting"
    /\ \A q \in Calls : q < p => Finished(q)
    /\ b_pc' = [b_pc EXCEPT ![p] = "exists"]
    /\ fs0' = fs
    /\ UNCHANGED <<fs, b_local, b_result, b_count, data_dirs, notStore>>

\* line 128; files are never removed, so the three exists() calls agree
\* with one look at the directory
B_Exists(p) ==
    /\ b_pc[p] = "exists"
    /\ b_pc' = [b_pc EXCEPT ![p] =
                  IF \A a \in Artifacts : fs[a].exists THEN "load_meta" ELSE "scan"]
    /\ UNCHANGED <<fs, b_local, b_result, b_count, fs0, data_dirs, notStore>>

AfterMetaLoadAnyway(meta) == "load_index"

\* lines 131 and 138-139: an empty list sends the call to the rebuild
AfterMeta(meta) == IF meta # <<>> THEN "load_index" ELSE "scan"

\* lines 129-131 and 138-139: json.load raises on a file that is not whole
B_LoadMeta(p) ==
    /\ b_pc[p] = "load_meta"
    /\ IF ~fs["meta"].complete
       THEN /\ b_pc' = [b_pc EXCEPT ![p] = "raised_load"]
            /\ UNCHANGED b_local
       ELSE /\ b_local' = [b_local EXCEPT ![p].meta = JsonLoad(fs["meta"].rows)]
            /\ b_pc' = [b_pc EXCEPT ![p] = AfterMeta(JsonLoad(fs["meta"].rows))]
    /\ UNCHANGED <<fs, b_result, b_count, fs0, data_dirs, notStore>>

\* line 132: faiss.read_index raises on a file that is not whole
B_LoadIndex(p) ==
    /\ b_pc[p] = "load_index"
    /\ IF ~fs["faiss"].complete
       THEN /\ b_pc' = [b_pc EXCEPT ![p] = "raised_load"]
            /\ UNCHANGED b_local
       ELSE /\ b_local' = [b_local EXCEPT ![p].index = fs["faiss"].rows]
            /\ b_pc' = [b_pc EXCEPT ![p] = "load_bm25"]
    /\ UNCHANGED <<fs, b_result, b_count, fs0, data_dirs, notStore>>

\* lines 133-137
B_LoadBm25(p) ==
    /\ b_pc[p] = "load_bm25"
    /\ IF ~fs["bm25"].complete
       THEN /\ b_pc' = [b_pc EXCEPT ![p] = "raised_load"]
            /\ UNCHANGED b_result
       ELSE /\ b_result' = [b_result EXCEPT ![p] =
                              [how |-> "loaded",
                               index |-> b_local[p].index,
                               meta |-> b_local[p].meta,
                               bm25 |-> BM25Okapi(JsonLoad(fs["bm25"].rows)),
                               bm25_data |-> JsonLoad(fs["bm25"].rows)]]
            /\ b_pc' = [b_pc EXCEPT ![p] = "returned"]
    /\ UNCHANGED <<fs, b_local, b_count, fs0, data_dirs, notStore>>

AfterScanUnchecked(chunks) == "open_meta"

\* lines 187-191: no chunk, no build
AfterScan(chunks) == IF chunks = <<>> THEN "raised_empty" ELSE "open_meta"

\* lines 141-205: the scan of data_dir reads its files in turn, each file
\* with text giving a chunk; an exception of a reader ends the call; the
\* index is built in memory
B_Scan(p) ==
    /\ b_pc[p] = "scan"
    /\ \E files \in data_dirs, o \in Ocr :
         LET docs == [i \in 1..Len(files) |-> Extract(files[i], o)]
             n == Cardinality({i \in 1..Len(files) : docs[i] = "docs"})
         IN IF \E i \in 1..Len(files) : docs[i] = "raise"
            THEN /\ b_pc' = [b_pc EXCEPT ![p] = "raised_extract"]
                 /\ b_local' = [b_local EXCEPT ![p].found_paths = files]
                 /\ UNCHANGED b_count
            ELSE /\ b_count' = IF n = 0 THEN b_count ELSE b_count + 1
                 /\ b_local' = [b_local EXCEPT ![p] =
                                   [found_paths |-> files,
                                    chunks |-> BuiltChunks(b_count', n),
                                    meta |-> BuiltChunks(b_count', n),
                                    index |-> [i \in 1..n |-> <<b_count', i>>]]]
                 /\ b_pc' = [b_pc EXCEPT ![p] = AfterScan(BuiltChunks(b_count', n))]
    /\ UNCHANGED <<fs, b_result, fs0, data_dirs, notStore>>

\* open(path, "w") of lines 206 and 212, and the one inside
\* faiss.write_index, line 208
B_Open(p, a) ==
    /\ b_pc[p] = "open_" \o a
    /\ fs' = [fs EXCEPT ![a] = Truncated]
    /\ b_pc' = [b_pc EXCEPT ![p] = "dump_" \o a]
    /\ UNCHANGED <<b_local, b_result, b_count, fs0, data_dirs, notStore>>

\* the statement after the with block that wrote artifact a
AfterDump(a) ==
    CASE a = "meta" -> "open_faiss"
      [] a = "faiss" -> "open_bm25"
      [] a = "bm25" -> "return"

\* what lines 207, 208 and 213 write to artifact a
Written(l, a) ==
    CASE a = "meta" -> JsonDump(l.meta)
      [] a = "faiss" -> l.index
      [] a = "bm25" -> JsonDump(l.chunks)

\* json.dump and close, lines 207 and 213; the write and close of
\* faiss.write_index, line 208
B_Dump(p, a) ==
    /\ b_pc[p] = "dump_" \o a
    /\ fs' = [fs EXCEPT ![a] = Dumped(fs[a], Written(b_local[p], a))]
    /\ b_pc' = [b_pc EXCEPT ![p] = AfterDump(a)]
    /\ UNCHANGED <<b_local, b_result, b_count, fs0, data_dirs, notStore>>

\* lines 210-211 and 215-216
B_Return(p) ==
    /\ b_pc[p] = "return"
    /\ b_result' = [b_result EXCEPT ![p] =
                      [how |-> "built",
                       index |-> b_local[p].index,
                       meta |-> b_local[p].meta,
                       bm25 |-> BM25Okapi(b_local[p].chunks),
                       bm25_data |-> b_local[p].chunks]]
    /\ b_pc' = [b_pc EXCEPT ![p] = "returned"]
    /\ UNCHANGED <<fs, b_local, b_count, fs0, data_dirs, notStore>>

\* the process of a rebuild is killed between two of its writes
B_Crash(p) ==
    /\ b_pc[p] \in {"open_" \o a : a \in Artifacts} \cup {"dump_" \o a : a \in Artifacts}
    /\ b_pc' = [b_pc EXCEPT ![p] = "crashed"]
    /\ UNCHANGED <<fs, b_local, b_result, b_count, fs0, data_dirs, notStore>>

StoreNext ==
    \E p \in Calls :
        \/ B_Exists(p)
        \/ B_LoadMeta(p)
        \/ B_LoadIndex(p)
        \/ B_LoadBm25(p)
        \/ B_Scan(p)
        \/ \E a \in Artifacts : B_Open(p, a)
        \/ \E a \in Artifacts : B_Dump(p, a)
        \/ B_Return(p)
        \/ B_Crash(p)

SeqNext == StoreNext \/ \E p \in Calls : B_Start(p)

-----------------------------------------------------------------------------
(* search and agentic_answer calls served concurrently from one snapshot *)

Clients == 1..NumQueries

ServedSnapshots == {SnapshotOf(d) : d \in SeqsUpTo(SearchDocs, MaxServed)}

\* the locals of a call before its first statement; call is the function
\* called, top_k the parameter of search (tool_retriever passes none, so
\* TOP_K)
NoQueryLocals(call, top_k) ==
    [call |-> call, top_k |-> top_k, vs |-> <<>>, ls |-> <<>>,
     vec_hits |-> <<>>, lex_hits |-> <<>>, candidates |-> <<>>,
     selected |-> <<>>, selected_texts |-> <<>>, collected |-> <<>>]

\* no query is served
Q_Off ==
    /\ q_ctx = None
    /\ q_fuzz = <<>>
    /\ q_pc = [p \in Clients |-> "off"]
    /\ q_local = [p \in Clients |-> NoQueryLocals("none", 0)]

Q_Init ==
    /\ q_ctx \in ServedSnapshots
    /\ q_fuzz \in {f \in AgentFuzz : f[TextAngle, TextPlain] = 50}
    /\ q_pc = [p \in Clients |-> "vector"]
    /\ q_local \in [Clients ->
          {NoQueryLocals("search", k) : k \in 1..MaxTopK}
              \cup {NoQueryLocals("agentic_answer", TOP_K)}]

\* variant: candidates is the list bm25_data of the snapshot itself
CtxAfterRemoveShared(c, best) ==
    [c EXCEPT !.bm25_data =
        SelectSeq(c.bm25_data, LAMBDA row : row.id # best.doc.id)]

\* the snapshot after candidates.remove(best), line 254: candidates is the
\* list built at line 241, so removing from it leaves the snapshot alone
CtxAfterRemove(c, best) == c

\* lines 221-224, the query vector scoring the rows by vs
Q_Vector(p) ==
    /\ q_pc[p] = "vector"
    /\ \E vs \in [1..Len(q_ctx.index) -> VecScores] :
         LET DI == FaissSearch(q_ctx.index, vs, q_local[p].top_k * 5)
         IN IF VecHitsOk(DI, q_ctx.meta)
            THEN /\ q_local' = [q_local EXCEPT ![p].vs = vs,
                                  ![p].vec_hits = VecHits(DI, q_ctx.meta, q_local[p].top_k)]
                 /\ q_pc' = [q_pc EXCEPT ![p] = "lexical"]
            ELSE /\ q_local' = [q_local EXCEPT ![p].vs = vs]
                 /\ q_pc' = [q_pc EXCEPT ![p] = "raised"]
    /\ UNCHANGED <<q_ctx, q_fuzz, notServe>>

\* lines 227-231, BM25 scoring the rows by ls
Q_Lexical(p) ==
    /\ q_pc[p] = "lexical"
    /\ \E ls \in [1..q_ctx.bm25 -> LexScores] :
         IF LexHitsOk(ls, q_ctx.bm25_data)
         THEN /\ q_local' = [q_local EXCEPT ![p].ls = ls,
                               ![p].lex_hits = LexHits(ls, q_ctx.bm25_data, q_local[p].top_k)]
              /\ q_pc' = [q_pc EXCEPT ![p] = "merge"]
         ELSE /\ q_local' = [q_local EXCEPT ![p].ls = ls]
              /\ q_pc' = [q_pc EXCEPT ![p] = "raised"]
    /\ UNCHANGED <<q_ctx, q_fuzz, notServe>>

\* lines 234-242
Q_Merge(p) ==
    /\ q_pc[p] = "merge"
    /\ q_local' = [q_local EXCEPT ![p].candidates =
                      Values(Merge(q_local[p].vec_hits, q_local[p].lex_hits))]
    /\ q_pc' = [q_pc EXCEPT ![p] = "mmr"]
    /\ UNCHANGED <<q_ctx, q_fuzz, notServe>>

\* one iteration of the while loop, lines 243-254
Q_Select(p) ==
    /\ q_pc[p] = "mmr"
    /\ MMRGuard(q_local[p].candidates, q_local[p].selected, q_local[p].top_k)
    /\ LET l == q_local[p]
           b == BestIndex(l.candidates, l.selected_texts, q_fuzz, MMR_LAMBDA)
       IN IF b = 0
          THEN /\ q_pc' = [q_pc EXCEPT ![p] = "raised"]
               /\ UNCHANGED <<q_local, q_ctx>>
          ELSE /\ q_local' = [q_local EXCEPT
                                ![p].selected = Append(l.selected, l.candidates[b].doc),
                                ![p].selected_texts =
                                    Append(l.selected_texts, l.candidates[b].doc.text),
                                ![p].candidates = ListRemove(l.candidates, l.candidates[b])]
               /\ q_ctx' = CtxAfterRemove(q_ctx, l.candidates[b])
               /\ UNCHANGED q_pc
    /\ UNCHANGED <<q_fuzz, notServe>>

\* line 255; a search call is over, agentic_answer goes on with the hits
Q_Return(p) ==
    /\ q_pc[p] = "mmr"
    /\ ~MMRGuard(q_local[p].candidates, q_local[p].selected, q_local[p].top_k)
    /\ q_pc' = [q_pc EXCEPT ![p] =
                  IF q_local[p].call = "search" THEN "returned" ELSE "rerank"]
    /\ UNCHANGED <<q_ctx, q_fuzz, q_local, notServe>>

\* lines 318-319 of agentic_answer, for one subgoal
Q_Rerank(p) ==
    /\ q_pc[p] = "rerank"
    /\ q_local' = [q_local EXCEPT ![p].collected =
                      q_local[p].collected \o TopBiased(q_local[p].selected)]
    /\ q_pc' = [q_pc EXCEPT ![p] = "returned"]
    /\ UNCHANGED <<q_ctx, q_fuzz, notServe>>

ServeNext ==
    \E p \in Clients :
        \/ Q_Vector(p)
        \/ Q_Lexical(p)
        \/ Q_Merge(p)
        \/ Q_Select(p)
        \/ Q_Return(p)
        \/ Q_Rerank(p)

-----------------------------------------------------------------------------
(* POST /analyze requests, each running analyze_video of the one agent *)

Requests == 1..NumRequests

\* the sports a request may name, two of main.py's SUPPORTED_SPORTS
Sports == {"basketball", "soccer"}

\* the file name every client uploads under
UploadName == "clip.mp4"

\* main.py: video_path = UPLOAD_DIR / f"{sport}_{video.filename}"
VideoPath(sport) == <<sport, UploadName>>

\* sports_agent.py: output_dir / f"{sport}_annotated_temp.mp4"
AnnotatedPath(sport) == <<sport, "annotated_temp.mp4">>

\* the content of sports.json: the call whose analysis step wrote it, 0 for
\* a call made before the ones modelled
WrittenBy(r) == [by |-> r]

\* the locals of a request before its first statement: the handler's
\* annotated_video_path, the workflow's analysis_data and returned status,
\* and what the handler ends with
NoRequestLocals(sport) ==
    [sport |-> sport, annotated_video_path |-> None,
     analysis_data |-> None, status |-> "none", ended |-> "none"]

\* no request is made
W_Off ==
    /\ uploads = {}
    /\ sports_json = None
    /\ w_pc = [r \in Requests |-> "off"]
    /\ w_local = [r \in Requests |-> NoRequestLocals("none")]

\* every request passed validation; sports.json is missing or left by an
\* earlier call
W_Init ==
    /\ uploads = {}
    /\ sports_json \in {None, WrittenBy(0)}
    /\ w_pc = [r \in Requests |-> "save"]
    /\ w_local \in [Requests -> {NoRequestLocals(s) : s \in Sports}]

\* a raise inside the try block of the handler: control goes to except
Raise(r) == w_pc' = [w_pc EXCEPT ![r] = "except"]

\* main.py lines 88-92: the upload is written to video_path
H_Save(r) ==
    /\ w_pc[r] = "save"
    /\ uploads' = uploads \cup {VideoPath(w_local[r].sport)}
    /\ w_pc' = [w_pc EXCEPT ![r] = "analysis"]
    /\ UNCHANGED <<sports_json, w_local>>
    /\ UNCHANGED notWeb

\* sports_agent.py lines 105-110, step 1: the executor runs the analysis
\* prompt. The tool writes sports.json (agent_tools.py 174-175), or it
\* raises and the workflow re-raises, or the executor ends without the tool
\* having written the file (handle_parsing_errors, max_iterations)
W_Analysis(r) ==
    /\ w_pc[r] = "analysis"
    /\ \E o \in {"wrote", "raised", "quiet"} :
          /\ sports_json' = IF o = "wrote" THEN WrittenBy(r) ELSE sports_json
          /\ IF o = "raised" THEN Raise(r)
                             ELSE w_pc' = [w_pc EXCEPT ![r] = "load"]
    /\ UNCHANGED <<uploads, w_local>>
    /\ UNCHANGED notWeb

\* sports_agent.py lines 113-114: analysis_data = json.load of sports.json,
\* FileNotFoundError when it does not exist
W_Load(r) ==
    /\ w_pc[r] = "load"
    /\ IF sports_json = None
          THEN /\ Raise(r)
               /\ UNCHANGED w_local
          ELSE /\ w_local' = [w_local EXCEPT ![r].analysis_data = sports_json]
               /\ w_pc' = [w_pc EXCEPT ![r] = "annotation"]
    /\ UNCHANGED <<uploads, sports_json>>
    /\ UNCHANGED notWeb

\* sports_agent.py lines 124-129, step 2: the executor runs the annotation
\* prompt. annotate_video writes the annotated video, or the tool raises,
\* or the executor ends without the tool having run
W_Annotate(r) ==
    /\ w_pc[r] = "annotation"
    /\ \E o \in {"wrote", "raised", "quiet"} :
          /\ uploads' = IF o = "wrote"
                           THEN uploads \cup {AnnotatedPath(w_local[r].sport)}
                           ELSE uploads
          /\ IF o = "raised" THEN Raise(r)
                             ELSE w_pc' = [w_pc EXCEPT ![r] = "coaching"]
    /\ UNCHANGED <<sports_json, w_local>>
    /\ UNCHANGED notWeb

\* sports_agent.py lines 139-157, step 3: the executor runs the coaching
\* prompt; the workflow returns status "success", or re-raises
W_Coach(r) ==
    /\ w_pc[r] = "coaching"
    /\ \E o \in {"ok", "raised"} :
          IF o = "raised"
             THEN /\ Raise(r)
                  /\ UNCHANGED w_local
             ELSE /\ w_local' = [w_local EXCEPT ![r].status = "success"]
                  /\ w_pc' = [w_pc EXCEPT ![r] = "check"]
    /\ UNCHANGED <<uploads, sports_json>>
    /\ UNCHANGED notWeb

\* main.py lines 104-108: annotated_video_path is bound to the result's
\* path; FileNotFoundError when no file is there
H_Check(r) ==
    /\ w_pc[r] = "check"
    /\ w_local' = [w_local EXCEPT ![r].annotated_video_path =
                                     AnnotatedPath(w_local[r].sport)]
    /\ IF AnnotatedPath(w_local[r].sport) \in uploads
          THEN w_pc' = [w_pc EXCEPT ![r] = "read"]
          ELSE Raise(r)
    /\ UNCHANGED <<uploads, sports_json>>
    /\ UNCHANGED notWeb

\* main.py lines 113-131: the annotated video is read and the response
\* returned; open raises when the file is gone
H_Read(r) ==
    /\ w_pc[r] = "read"
    /\ IF w_local[r].annotated_video_path \in uploads
          THEN /\ w_local' = [w_local EXCEPT ![r].ended = "response"]
               /\ w_pc' = [w_pc EXCEPT ![r] = "finally"]
          ELSE /\ Raise(r)
               /\ UNCHANGED w_local
    /\ UNCHANGED <<uploads, sports_json>>
    /\ UNCHANGED notWeb

\* main.py lines 133-135: any exception becomes an HTTP 500 error
H_Except(r) ==
    /\ w_pc[r] = "except"
    /\ w_local' = [w_local EXCEPT ![r].ended = "error"]
    /\ w_pc' = [w_pc EXCEPT ![r] = "finally"]
    /\ UNCHANGED <<uploads, sports_json>>
    /\ UNCHANGED notWeb

\* main.py lines 137-142: video_path is unlinked, and annotated_video_path
\* when the handler bound it
H_Finally(r) ==
    /\ w_pc[r] = "finally"
    /\ uploads' = (uploads \ {VideoPath(w_local[r].sport)})
                      \ (IF w_local[r].annotated_video_path = None
                            THEN {}
                            ELSE {w_local[r].annotated_video_path})
    /\ w_pc' = [w_pc EXCEPT ![r] = "finished"]
    /\ UNCHANGED <<sports_json, w_local>>
    /\ UNCHANGED notWeb

WebNext ==
    \/ \E r \in Requests : H_Save(r)
    \/ \E r \in Requests : W_Analysis(r)
    \/ \E r \in Requests : W_Load(r)
    \/ \E r \in Requests : W_Annotate(r)
    \/ \E r \in Requests : W_Coach(r)
    \/ \E r \in Requests : H_Check(r)
    \/ \E r \in Requests : H_Read(r)
    \/ \E r \in Requests : H_Except(r)
    \/ \E r \in Requests : H_Finally(r)

-----------------------------------------------------------------------------
(* Specifications *)

\* line 26: MMR_LAMBDA = 0.5
SearchInit == S_Init /\ s_lambda = MMR_LAMBDA /\ A_Off /\ K_Off /\ B_Off /\ Q_Off /\ W_Off

SpecSearch == SearchInit /\ [][SearchNext]_vars

\* search configured with MMR_LAMBDA = 1: relevance alone ranks
RelevanceInit == S_Init /\ s_lambda = 100 /\ A_Off /\ K_Off /\ B_Off /\ Q_Off /\ W_Off

SpecSearchRelevance == RelevanceInit /\ [][SearchNext]_vars

\* search configured with MMR_LAMBDA = 0: diversity alone ranks
DiversityInit == S_Init /\ s_lambda = 0 /\ A_Off /\ K_Off /\ B_Off /\ Q_Off /\ W_Off

SpecSearchDiversity == DiversityInit /\ [][SearchNext]_vars

AgentInit == A_Init /\ S_Off /\ K_Off /\ B_Off /\ Q_Off /\ W_Off

SpecAgent == AgentInit /\ [][AgentNext]_vars

\* agentic_answer is straight-line code: a statement that can run does run
FairSpecAgent == SpecAgent /\ WF_vars(AgentNext)

ChunkInit == K_Init /\ S_Off /\ A_Off /\ B_Off /\ Q_Off /\ W_Off

SpecChunk == ChunkInit /\ [][ChunkNext]_vars

StoreInit == B_Init /\ S_Off /\ A_Off /\ K_Off /\ Q_Off /\ W_Off

SpecStore == StoreInit /\ [][StoreNext]_vars

SeqInit == B_InitSeq /\ S_Off /\ A_Off /\ K_Off /\ Q_Off /\ W_Off

SpecStoreSeq == SeqInit /\ [][SeqNext]_vars

ServeInit == Q_Init /\ S_Off /\ A_Off /\ K_Off /\ B_Off /\ W_Off

SpecServe == ServeInit /\ [][ServeNext]_vars

WebInit == W_Init /\ S_Off /\ A_Off /\ K_Off /\ B_Off /\ Q_Off

SpecWeb == WebInit /\ [][WebNext]_vars

-----------------------------------------------------------------------------
(* Properties *)

PhasesShort == <<"Planning", "Retrieving", "Synthesizing", "Reflecting", "Done">>
PhasesLong == <<"Planning", "Retrieving", "Synthesizing", "Reflecting",
                "Refining", "Synthesizing(final)", "Done">>

IsPrefix(s, t) == Len(s) <= Len(t) /\ s = SubSeq(t, 1, Len(s))

InTrace(phase) == \E i \in 1..Len(a_trace) : a_trace[i] = phase

\* the phases run so far are the start of one of the two sequences, and a
\* finished run has run one of them completely
PhasesFollowed ==
    ctx # None =>
        /\ IsPrefix(a_trace, PhasesShort) \/ IsPrefix(a_trace, PhasesLong)
        /\ a_pc = "Done" => a_trace \in {PhasesShort, PhasesLong}
        /\ a_pc # "Raised"

\* C1: every run of agentic_answer on a snapshot goes through Planning,
\* Retrieving, Synthesizing, Reflecting and then either Done, or Refining,
\* Synthesizing(final), Done; so Refining is entered at most once and
\* Reflecting never runs twice; and the run always reaches Done.
C1_PhaseSequences ==
    /\ []PhasesFollowed
    /\ (ctx # None /\ a_pc = "Planning") ~> (a_pc = "Done")

\* a run that refined has finished
C1_RefinedRunDone ==
    ctx # None /\ a_pc = "Done" /\ a_trace = PhasesLong

\* C2: at every point of agentic_answer the collected hits number at most
\* three per subgoal plus one refinement batch of at most TOP_K hits; before
\* the refinement, at most three per subgoal handled.
C2_CollectedBounded ==
    /\ Len(collected) <= 3 * Len(subgoals) + TOP_K
    /\ ~InTrace("Refining") => Len(collected) <= 3 * sg_i

\* a run over a corpus of four chunks that took three hits for each of its
\* three subgoals and a whole refinement batch
C2_FullRefinedRun ==
    /\ ctx # None
    /\ a_pc = "Done"
    /\ InTrace("Refining")
    /\ Len(subgoals) = 3
    /\ Len(ctx.meta) > 3
    /\ Len(collected) = 3 * Len(subgoals) + Len(ctx.meta)

\* C3: once plan(query) has run, the first subgoal is the original query.
C3_FirstSubgoalIsQuery ==
    a_pc \notin {"off", "Planning"} => subgoals # <<>> /\ subgoals[1] = query

\* C4: sliding_window_chunks on a non-empty text with overlap >= chunk_size
\* appends no chunk and returns no chunk list.
C4_OverlapRejected ==
    (k_pc \in {"while", "returned"} /\ k_txt # <<>> /\ k_overlap >= k_size)
        => k_chunks = <<>> /\ k_pc # "returned"

\* the builds whose artifacts make up a returned tuple
ResultBuilds(r) ==
    {r.index[i][1] : i \in 1..Len(r.index)}
        \cup {r.meta[i].id[1] : i \in 1..Len(r.meta)}
        \cup {r.bm25_data[i].id[1] : i \in 1..Len(r.bm25_data)}

\* C5: the index, the chunk list and the lexical corpus of a tuple
\* build_or_load_indexes returned all come from one single build.
C5_SingleBuildSnapshot ==
    \A p \in Calls :
        b_result[p] # None => Cardinality(ResultBuilds(b_result[p])) = 1

\* C6: in a tuple build_or_load_indexes returned, the chunk list, the vector
\* index, the lexical corpus and the BM25 scorer have the same number of rows,
\* and row i of the chunk list and of the lexical corpus carry the same id.
C6_RowsAligned ==
    \A p \in Calls :
        b_result[p] # None =>
            LET r == b_result[p]
            IN /\ Len(r.meta) = Len(r.index)
               /\ Len(r.meta) = Len(r.bm25_data)
               /\ Len(r.meta) = r.bm25
               /\ \A i \in 1..Len(r.meta) : r.meta[i].id = r.bm25_data[i].id

\* C7: a query issued without a snapshot runs no phase: plan is never
\* executed for it.
C7_FailsBeforePlanning ==
    ctx = None => a_trace = <<>> /\ subgoals = <<>>

\* C8: on a snapshot of N >= 1 chunks (the three artifacts hold the same N
\* rows) search never raises and returns exactly min(top_k, N) hits, each a
\* chunk of the snapshot, no candidate carrying the score of a row the
\* vector search padded.
C8_MinHitsNoPadding ==
    (s_pc # "off" /\ SameRows(s_ctx)) =>
        /\ s_pc # "raised"
        /\ \A i \in 1..Len(merged) : merged[i].score # FAISS_PAD_SCORE
        /\ \A i \in 1..Len(candidates) : candidates[i].score # FAISS_PAD_SCORE
        /\ s_pc = "returned" =>
              /\ Len(selected) = Min(s_top_k, Len(s_ctx.meta))
              /\ \A i \in 1..Len(selected) :
                    \E j \in 1..Len(s_ctx.meta) : selected[i] = s_ctx.meta[j]

\* a search for more hits than the snapshot has chunks, whose vector search
\* reported padded rows, has returned
C8_PaddedSearchReturned ==
    /\ s_pc = "returned"
    /\ SameRows(s_ctx)
    /\ s_top_k > Len(s_ctx.meta)
    /\ \E i \in 1..Len(vec_hits) : vec_hits[i].score = FAISS_PAD_SCORE
    /\ Len(selected) = Len(s_ctx.meta)

\* C9: no two hits search has selected have the same chunk id.
C9_DistinctIds ==
    \A i, j \in 1..Len(selected) : i # j => selected[i].id # selected[j].id

\* a search returned two hits although its vector candidates named one chunk
\* twice
C9_TwoHitsReturned ==
    /\ s_pc = "returned"
    /\ Len(selected) >= 2
    /\ \E i, j \in 1..Len(vec_hits) : i # j /\ vec_hits[i].doc.id = vec_hits[j].doc.id

\* the merge has run
MergeDone == s_pc \in {"mmr", "returned"}

\* the score the merged candidates m give the chunk id
MergedScore(m, id) == m[CHOOSE i \in 1..Len(m) : m[i].key = id].score

\* the scores a list of hits gives the chunk id
ScoresOf(hits, id) == {hits[i].score : i \in {j \in 1..Len(hits) : hits[j].doc.id = id}}

MergeKeepsHighest ==
    MergeDone =>
        LET hits == vec_hits \o lex_hits
            swapped == Merge(lex_hits, vec_hits)
        IN /\ \A h \in 1..Len(hits) :
                 LET id == hits[h].doc.id
                     all == ScoresOf(hits, id)
                 IN /\ MergedScore(merged, id) \in all
                    /\ \A s \in all : s <= MergedScore(merged, id)
                    /\ MergedScore(swapped, id) = MergedScore(merged, id)
           /\ \A m \in 1..Len(merged) : ScoresOf(hits, merged[m].key) # {}
           /\ Len(swapped) = Len(merged)


\* the call that started last and has not been followed by another
Running(p) ==
    /\ b_pc[p] \notin {"off", "waiting"}
    /\ \A q \in Calls : q > p => b_pc[q] = "waiting"

\* index_dir held the three artifacts, meta.json a whole file holding []
EmptyMetaDir(dir) ==
    /\ \A a \in Artifacts : dir[a].exists
    /\ dir["meta"].complete
    /\ JsonLoad(dir["meta"].rows) = <<>>

\* C11: a call that finds the three artifacts with an empty chunk list in
\* meta.json goes on to scan the corpus: it neither returns the persisted
\* data nor raises at that point
C11_EmptyMetaRebuilds ==
    /\ [](\A p \in Calls :
            b_result[p] # None /\ b_result[p].how = "loaded"
                => b_result[p].meta # <<>>)
    /\ [][\A p \in Calls :
            b_pc[p] = "load_meta" /\ EmptyMetaDir(fs) /\ b_pc'[p] # b_pc[p]
                => b_pc'[p] = "scan"]_vars

\* a call that found the empty meta.json has rebuilt and is saving
C11_EmptyMetaRebuilt ==
    \E p \in Calls :
        Running(p) /\ EmptyMetaDir(fs0) /\ b_pc[p] = "open_meta"

\* the call went through the scan of data_dir without a reader raising
Scanned(p) ==
    \/ b_pc[p] \in {"raised_empty", "return", "crashed"}
    \/ b_pc[p] \in {"open_" \o a : a \in Artifacts} \cup {"dump_" \o a : a \in Artifacts}
    \/ b_pc[p] = "returned" /\ b_result[p].how = "built"

\* C12: a call whose scan of the corpus gave no chunk ends with the
\* empty-corpus error, and index_dir is then as the call found it
C12_EmptyCorpusFails ==
    \A p \in Calls :
        Scanned(p) /\ b_local[p].chunks = <<>> =>
            /\ b_pc[p] = "raised_empty"
            /\ Running(p) => fs = fs0

\* a call ended with the empty-corpus error on a corpus that has files,
\* in an index_dir that has files
C12_EmptyCorpusRaised ==
    \E p \in Calls :
        /\ Running(p) /\ b_pc[p] = "raised_empty"
        /\ b_local[p].found_paths # <<>>
        /\ \E a \in Artifacts : fs0[a].exists

\* call p returned loaded artifacts that all come from the build call q made
\* and returned
LoadedFrom(p, q) ==
    /\ b_result[p] # None /\ b_result[p].how = "loaded"
    /\ b_result[q] # None /\ b_result[q].how = "built"
    /\ ResultBuilds(b_result[p]) = ResultBuilds(b_result[q])

\* C13: a call that loads the artifacts a completed build wrote returns the
\* chunk list, the lexical corpus and the index rows that build returned,
\* row for row.
C13_LoadIsSavedRows ==
    \A p, q \in Calls :
        LoadedFrom(p, q) =>
            /\ b_result[p].meta = b_result[q].meta
            /\ b_result[p].bm25_data = b_result[q].bm25_data
            /\ b_result[p].index = b_result[q].index
            /\ b_result[p].bm25 = b_result[q].bm25

\* a later call loaded the two rows an earlier call built and saved
C13_TwoRowsLoaded ==
    \E p, q \in Calls : LoadedFrom(p, q) /\ Len(b_result[p].meta) = 2

\* C14: a call that finds a persisted artifact it cannot read (meta.json,
\* faiss.index or bm25.json present but cut or malformed) rebuilds: no call
\* ends with the exception of the load.
C14_LoadFailureRebuilds ==
    \A p \in Calls : b_pc[p] # "raised_load"

\* C15: during a rebuild no file of data_dir aborts the build: a file whose
\* reader fails is skipped and the scan goes on, so no call ends with the
\* exception of a reader.
C15_ExtractionFailureSkipped ==
    \A p \in Calls : b_pc[p] # "raised_extract"

\* sliding_window_chunks returned, called with 0 <= overlap < chunk_size;
\* k_txt is then the normalized text
ChunksReturned == k_pc = "returned" /\ k_overlap < k_size

\* ceil(a / b) for b > 0
CeilDiv(a, b) == -((-a) \div b)

\* where the window of chunk j starts in the normalized text
WindowStart(j) == (j - 1) * (k_size - k_overlap)

\* C16: for a normalized text of length len >= 1 and 0 <= overlap < size the
\* number of chunks returned is within 1 of
\* ceil((len - overlap) / (size - overlap)).
C16_ChunkCountFormula ==
    ChunksReturned /\ Len(k_txt) >= 1 =>
        LET expected == CeilDiv(Len(k_txt) - k_overlap, k_size - k_overlap)
        IN /\ Len(k_chunks) - expected <= 1
           /\ expected - Len(k_chunks) <= 1

\* C17: the first chunk whose window reaches the end of the normalized text
\* is the last chunk returned.
C17_StopsAtCoveredTail ==
    ChunksReturned =>
        \A j \in 1..Len(k_chunks) :
            WindowStart(j) + k_size >= Len(k_txt) => j = Len(k_chunks)

\* ch[overlap:]
DropOverlap(ch) == SubSeq(ch, k_overlap + 1, Len(ch))

RECURSIVE JoinDeOverlapped(_)
\* the first chunk followed by every later chunk without its first
\* `overlap` characters
JoinDeOverlapped(chunks) ==
    IF Len(chunks) <= 1 THEN (IF chunks = <<>> THEN <<>> ELSE chunks[1])
    ELSE JoinDeOverlapped(SubSeq(chunks, 1, Len(chunks) - 1))
             \o DropOverlap(chunks[Len(chunks)])

\* C18: the first chunk concatenated with every later chunk stripped of its
\* first `overlap` characters is the normalized text.
C18_DeOverlappedIsText ==
    ChunksReturned => JoinDeOverlapped(k_chunks) = k_txt

\* three overlapping chunks were returned for a text longer than a window
C18_OverlappingChunksReturned ==
    ChunksReturned /\ k_overlap >= 1 /\ Len(k_chunks) >= 3 /\ Len(k_txt) > k_size

\* C19: every chunk returned has at most chunk_size characters, and of every
\* two consecutive chunks the last `overlap` characters of the earlier are
\* the first `overlap` characters of the later.
C19_ChunksOverlapExactly ==
    ChunksReturned =>
        /\ \A j \in 1..Len(k_chunks) : Len(k_chunks[j]) <= k_size
        /\ \A j \in 1..(Len(k_chunks) - 1) :
               /\ Len(k_chunks[j]) >= k_overlap
               /\ Len(k_chunks[j + 1]) >= k_overlap
               /\ SubSeq(k_chunks[j], Len(k_chunks[j]) - k_overlap + 1, Len(k_chunks[j]))
                      = SubSeq(k_chunks[j + 1], 1, k_overlap)

\* search returned under MMR_LAMBDA = 1
RelevanceReturned == s_pc = "returned" /\ s_lambda = 100

\* C20: with lambda = 1 the hits search returns are the min(top_k, number of
\* merged candidates) candidates of the highest merged scores, in
\* non-increasing order of merged score.
C20_PureRelevanceOrder ==
    RelevanceReturned =>
        /\ Len(selected) = Min(s_top_k, Len(merged))
        /\ \A i, j \in 1..Len(selected) :
               i < j => MergedScore(merged, selected[i].id)
                            >= MergedScore(merged, selected[j].id)
        /\ \A i \in 1..Len(selected), c \in 1..Len(candidates) :
               MergedScore(merged, selected[i].id) >= candidates[c].score
        /\ \A i \in 1..Len(selected) :
               \E m \in 1..Len(merged) : merged[m].doc = selected[i]

\* two hits of different merged scores were returned and a candidate was
\* left out, the second hit being as similar to the first as a text can be
C20_RankedByScoreAlone ==
    /\ RelevanceReturned
    /\ Len(selected) = 2 /\ candidates # <<>>
    /\ MergedScore(merged, selected[1].id) > MergedScore(merged, selected[2].id)
    /\ s_fuzz[selected[2].text, selected[1].text] = 100
    /\ \E c \in 1..Len(candidates) :
          s_fuzz[candidates[c].doc.text, selected[1].text] < 100

\* the hit the MMR loop selects in this step
Picked == selected'[Len(selected')]

\* max similarity of a chunk to the texts selected before this step
SimToSelected(doc) == MaxSim([doc |-> doc], selected_texts, s_fuzz)

\* C21: with lambda = 0, every hit the MMR loop selects after the first is
\* at most as similar to the hits already selected as every candidate that
\* was unselected at that step.
C21_LeastSimilarPicked ==
    [][(s_lambda = 0 /\ selected # <<>> /\ Len(selected') = Len(selected) + 1)
          => \A c \in 1..Len(candidates) :
                 SimToSelected(Picked) <= SimToSelected(candidates[c].doc)]_vars

\* under lambda = 0 the second hit was preferred to a candidate of a higher
\* merged score that is more similar to the first hit
C21_DiverseOverRelevant ==
    /\ s_pc = "returned" /\ s_lambda = 0
    /\ Len(selected) = 2
    /\ \E c \in 1..Len(candidates) :
          /\ candidates[c].score > MergedScore(merged, selected[2].id)
          /\ s_fuzz[candidates[c].doc.text, selected[1].text]
                > s_fuzz[selected[2].text, selected[1].text]

\* what the call of query p returns when it runs alone on snapshot c
AloneResult(p, c) ==
    LET l == q_local[p]
        hits == Search(c, l.vs, l.ls, q_fuzz, l.top_k).selected
    IN IF l.call = "search" THEN hits ELSE TopBiased(hits)

\* what the call of query p returned
ServedResult(p) ==
    IF q_local[p].call = "search" THEN q_local[p].selected
    ELSE q_local[p].collected

\* C22: no step of a search or agentic_answer call changes the loaded
\* snapshot, whatever the interleaving of the calls, and every call returns
\* what it returns when it runs alone on that snapshot.
C22_ServingIsReadOnly ==
    /\ [][q_ctx' = q_ctx]_vars
    /\ [](\A p \in Clients :
            q_pc[p] = "returned" => ServedResult(p) = AloneResult(p, q_ctx))

\* a search call and an agentic_answer call, interleaved on a snapshot of
\* two chunks, both returned hits
C22_TwoCallsReturned ==
    /\ Len(q_ctx.meta) = 2
    /\ \A p \in Clients : q_pc[p] = "returned" /\ ServedResult(p) # <<>>
    /\ \E p, r \in Clients :
          q_local[p].call = "search" /\ q_local[r].call = "agentic_answer"

\* the hits a draft made of the collected hits cites: evidences[:4]
CitedHits == PyHead(collected, 4)

\* the text has one of the angle keywords of bias
HasAngleKeyword(text) == AnyInLower({"angle", "arc", "entry", "release"}, text)

\* the query makes plan add the angle subgoal
AngleRule == InLower("angle", query) \/ InLower("arc", query)

\* C23: in the final draft of a query that triggers the angle rule, every
\* cited chunk whose text has an angle keyword is listed before every cited
\* chunk whose text has none.
C23_AngleChunksFirst ==
    (a_pc = "Done" /\ AngleRule) =>
        \A i, j \in 1..Len(CitedHits) :
            (HasAngleKeyword(CitedHits[j].text) /\ ~HasAngleKeyword(CitedHits[i].text))
                => j < i

\* the keyword bonus of a text, times 10: 1.0 for a set-A keyword, 0.5 for a
\* set-B keyword
KeywordBonus(text) ==
    (IF \E k \in {"angle", "arc", "entry", "release"} : InLower(k, text)
     THEN 10 ELSE 0)
    + (IF \E k \in {"form", "technique", "mechanics", "finishing"} : InLower(k, text)
       THEN 5 ELSE 0)

\* how many hits of the list come before hit j when the hits are ranked by
\* bonus, hits of equal bonus in the order of the list
RankOf(hits, j) ==
    Cardinality({k \in 1..Len(hits) :
        \/ KeywordBonus(hits[k].text) > KeywordBonus(hits[j].text)
        \/ KeywordBonus(hits[k].text) = KeywordBonus(hits[j].text) /\ k < j})

\* app is made of the at most 3 hits of the list that rank first, in rank
\* order
IsTopThree(app, hits) ==
    /\ Len(app) = Min(3, Len(hits))
    /\ \A i \in 1..Len(app) :
          \E j \in 1..Len(hits) : RankOf(hits, j) = i - 1 /\ app[i] = hits[j]

\* C24: every iteration of the retrieve loop handles the next subgoal in
\* plan order and appends to the collected hits the at most 3 hits of one
\* search result that have the highest keyword bonus, hits of equal bonus
\* in search order; what was collected before stays, duplicates included.
C24_TopThreePerSubgoal ==
    [][(a_pc = "Retrieving" /\ collected' # collected) =>
          /\ sg_i' = sg_i + 1 /\ sg_i' <= Len(subgoals)
          /\ IsPrefix(collected, collected')
          /\ \E r \in a_search :
                /\ r.ok
                /\ IsTopThree(SubSeq(collected', Len(collected) + 1, Len(collected')),
                              r.selected)]_vars

\* two subgoals were handled, the second search listing a chunk without
\* bonus before a chunk with the form bonus, and one chunk was collected for
\* both subgoals
C24_SameChunkCollectedTwice ==
    /\ a_pc = "Retrieving" /\ sg_i = 2
    /\ \E i, j \in 1..Len(collected) : i < j /\ collected[i] = collected[j]
    /\ \E r \in a_search :
          /\ r.ok /\ Len(r.selected) = 2
          /\ KeywordBonus(r.selected[1].text) = 0
          /\ KeywordBonus(r.selected[2].text) = 5
          /\ SubSeq(collected, Len(collected) - 1, Len(collected))
                = <<r.selected[2], r.selected[1]>>

\* the places of token t in the draft d, and the k-th of them
PlacesOf(d, t) == {i \in 1..Len(d) : d[i] = t}
NthPlace(d, t, k) ==
    CHOOSE i \in PlacesOf(d, t) :
        Cardinality({j \in PlacesOf(d, t) : j < i}) = k - 1

\* the bullets of a draft, each as <<snippet, filename>>: a bullet runs from
\* a "-" to the file name after its "_Source:_"
BulletsOf(d) ==
    [k \in 1..Cardinality(PlacesOf(d, "-")) |->
        <<SubSeq(d, NthPlace(d, "-", k) + 1, NthPlace(d, "_Source:_", k) - 1),
          d[NthPlace(d, "_Source:_", k) + 1]>>]

\* draft holds the draft made of the hits collected so far
DraftIsCurrent == ctx # None /\ a_pc \in {"Reflecting", "Return", "Done"}

\* C25: every draft, first or final, cites the first min(4, number of
\* collected hits) collected hits, in collection order, and no other.
C25_DraftCitesFirstFour ==
    DraftIsCurrent =>
        /\ Len(BulletsOf(draft)) = Min(4, Len(collected))
        /\ \A k \in 1..Len(BulletsOf(draft)) :
              BulletsOf(draft)[k] = <<collected[k].text, collected[k].meta.filename>>

\* a final draft of four bullets over more than four collected hits, the
\* fifth a chunk the draft does not cite
C25_FifthHitNotCited ==
    /\ DraftIsCurrent /\ a_pc = "Done"
    /\ Len(collected) > 4
    /\ \A k \in 1..4 : collected[k] # collected[5]

\* 'angle' occurs in the draft and in the text of no collected hit
AngleUngrounded ==
    /\ InLower("angle", draft)
    /\ \A i \in 1..Len(collected) : ~InLower("angle", collected[i].text)

\* C26: the step that leaves Reflecting goes to Refining exactly when an
\* issue is flagged, which is exactly when 'angle' occurs in the draft and
\* in no collected text, or nothing was collected; otherwise it goes to the
\* return of the first draft, which Done then holds.
C26_RefineIffIssue ==
    /\ [][(a_pc = "Reflecting" /\ a_pc' # a_pc) =>
            /\ (issues' # <<>>) <=> (AngleUngrounded \/ collected = <<>>)
            /\ (a_pc' = "Refining") <=> (issues' # <<>>)
            /\ (issues' = <<>>) => (a_pc' = "Return" /\ draft' = draft)]_vars
    /\ [][(a_pc = "Return" /\ ~InTrace("Refining")) =>
            (a_pc' = "Done" /\ draft' = draft)]_vars

\* a run whose draft has 'angle' (in the name of a cited file) over
\* evidence whose texts have none went to Refining
C26_UngroundedAngleRefined ==
    /\ a_pc = "Refining" /\ AngleUngrounded /\ collected # <<>>

\* C27: when Refining was entered with 4 or more collected hits (the first
\* draft then has 4 bullets), the final draft is the first draft: the hits
\* of the refinement search come after the first four and are not cited.
C27_RefinementNotCited ==
    /\ [](a_pc = "Refining" =>
            (Len(collected) >= 4 <=> Len(BulletsOf(draft)) = 4))
    /\ [][(a_pc = "SynthesizingFinal" /\ a_pc' # a_pc
              /\ Len(BulletsOf(draft)) = 4)
            => draft' = draft]_vars

\* a run that refined over six collected hits is done, its refinement hits
\* collected from the seventh place on
C27_RefinedOverFullDraft ==
    /\ a_pc = "Done" /\ InTrace("Refining")
    /\ Len(subgoals) = 3
    /\ Len(collected) >= 3 * Len(subgoals) + 1
    /\ Len(BulletsOf(draft)) = 4

\* C28: on a snapshot of at least one chunk every search of a subgoal
\* returns at least one hit, so the collected hits are not empty once the
\* retrieve loop is over and the issue "No evidence retrieved." is never
\* flagged.
C28_EvidenceNeverEmpty ==
    (ctx # None /\ Len(ctx.meta) >= 1) =>
        /\ \A r \in a_search : r.ok /\ r.selected # <<>>
        /\ a_pc = "Retrieving" => Len(collected) >= sg_i
        /\ a_pc \in {"Reflecting", "Refining", "SynthesizingFinal", "Return", "Done"}
              => collected # <<>>
        /\ \A i \in 1..Len(issues) : issues[i] # IssueNoEvidence

\* a run over a snapshot of one chunk is done without refinement, with one
\* hit for each of its three subgoals
C28_OneChunkRunDone ==
    /\ ctx # None /\ Len(ctx.meta) = 1
    /\ a_pc = "Done" /\ ~InTrace("Refining")
    /\ Len(subgoals) = 3 /\ Len(collected) = 3


\* the workflow of request r returned status "success"
Succeeded(r) == w_local[r].status = "success"

\* C29: the analysis data a call of analyze_video returns with status
\* "success" was written by the analysis step of that same call, never by an
\* earlier or a concurrent one.
C29_AnalysisDataIsOwn ==
    \A r \in Requests :
        Succeeded(r) => w_local[r].analysis_data = WrittenBy(r)

\* request r is between its first statement and the end of its handler
InFlight(r) == w_pc[r] \notin {"save", "finished"}

\* C30: once a request has finished, with a response or an error, and no
\* other request is in flight, neither its uploaded video nor its annotated
\* temporary video is left in the uploads directory.
C30_NothingLeftBehind ==
    \A r \in Requests :
        (w_pc[r] = "finished" /\ \A o \in Requests \ {r} : ~InFlight(o))
            => /\ VideoPath(w_local[r].sport) \notin uploads
               /\ AnnotatedPath(w_local[r].sport) \notin uploads
=============================================================================
